---- MODULE Spec2Model ----
(***************************************************************************)
(* Model of the tez command line client (ecadlabs/tez-cli):                *)
(*   - the block reference resolver  BlockCommandContext.getBlock          *)
(*     (src/cmd/block.go)                                                  *)
(*   - the watch pipelines of `block --watch` (src/cmd/block.go) and       *)
(*     `block operations --watch` (src/unnamed/part_002): the monitorHeads *)
(*     goroutine, the resolver loop and the background template goroutine *)
(* Strings are sequences of one-character strings.  The node service       *)
(* (go-tezos) is the environment.                                          *)
(***************************************************************************)
EXTENDS Integers, Sequences, FiniteSets, TLC

VARIABLES
    \* ---- resolver run (one call of getBlock) ----
    query,          \* the reference string given to getBlock
    getSuccessor,   \* second argument of getBlock
    node,           \* the node service the call talks to
    xb,             \* what getBlock returned (and the node calls it made)
    gbPc,           \* "idle" | "ready" | "returned"
    \* ---- watch run ----
    cmd,            \* "block" | "operations" | "none"
    sink,           \* "enc" | "user" | "queue"
    env,            \* what the node and the caller may do during the run
    ctxCancelled,   \* c.context is cancelled
    monPc,          \* monitor goroutine: "loop" | "stream" | "returned" | "closed"
    monErr,         \* variable monErr of RunE
    subs,           \* number of service.MonitorHeads calls made so far
    lastSubErr,     \* what the last finished service.MonitorHeads call returned
    ch,             \* buffered channel ch (head notifications)
    chClosed,
    lastLevel,
    firstBlockReceived,
    pc,             \* main goroutine: "range" | "dispatch" | "send" | "waitSem" | "done"
    cur,            \* block resolved in the current loop iteration
    sendLeft,       \* operation records of cur still to send to tplCh
    result,         \* value returned by RunE ("none" while running)
    tplCh,          \* buffered channel tplCh
    tplChClosed,
    tplSem,         \* TRUE once tplSem is closed
    tplErr,
    tplPc,          \* template goroutine: "off" | "running" | "done"
    \* ---- history (observation only) ----
    heads,          \* notifications put into ch, in order, with the subscription
    received,       \* notifications taken from ch by the loop, with the verdict
    resolved,       \* hashes given to getBlock by the loop
    resolveErr,     \* error of the failed getBlock of the loop ("nil" if none)
    dispatched,     \* levels of the blocks handed to the sink, in order
    rendered,       \* items consumed by the template goroutine
    \* ---- run of `block operations' (kinds validation, classification) ----
    opKinds,        \* values of the --kind flag
    oWatch,         \* ctx.watch
    oBlock,         \* Operations of the block the node has at head
    kinds,          \* the allow-set built by RunE (a nil map or a set)
    oPc,            \* "idle" | "start" | "watch" | "watching" | "resolve" |
                    \* "classify" | "output" | "panic" | "done"
    oErr,           \* error returned by RunE ("nil" if none)
    oErrArg,        \* the value formatted into the error message
    oCalls,         \* node lookups made by the run
    oSubs,          \* heads subscriptions started by the run
    oXb,            \* the resolved block
    oInfo,          \* what getBlockInfo returned for it
    oRecords,       \* the records getBlockOperations returned
    oOut,           \* the records written to the output
    \* ---- root command: PersistentPreRunE ----
    useColors,      \* --colors
    isTerminal,     \* isatty.IsTerminal(os.Stdout.Fd())
    clientFails,    \* tezos.NewRPCClient returns an error for c.tezosURL
    levelFlag,      \* --log (variable level of NewRootCommand)
    colorizer,      \* c.colorizer: colours are on
    service,        \* c.service (its Client), "unset" before the hook
    logLevel,       \* the level given to log.SetLevel
    preErr,         \* error returned by the hook
    prePc,          \* "idle" | "start" | "done"
    \* ---- non-watch run of `block' or `block operations' ----
    args,           \* the block references given on the command line
    blocks,         \* slice blocks: the references resolved so far
    bCalls,         \* node lookups made, each with the index of its argument
    bErr,           \* error returned by RunE ("nil" if none)
    bOut,           \* items written to the output, in order
    bPc             \* "idle" | "resolve" | "output" | "panic" | "done"

resolverVars == <<query, getSuccessor, node, xb, gbPc>>
monVars      == <<monPc, monErr, subs, lastSubErr, ch, chClosed, heads>>
loopVars     == <<lastLevel, firstBlockReceived, pc, cur, sendLeft, result,
                  received, resolved, resolveErr, dispatched>>
tplVars      == <<tplCh, tplChClosed, tplSem, tplErr, tplPc, rendered>>
watchVars    == <<cmd, sink, env, ctxCancelled, monVars, loopVars, tplVars>>
opsVars      == <<opKinds, oWatch, oBlock, kinds, oPc, oErr, oErrArg, oCalls, oSubs,
                  oXb, oInfo, oRecords, oOut>>
rootVars     == <<useColors, isTerminal, clientFails, levelFlag, colorizer, service,
                  logLevel, preErr, prePc>>
batchVars    == <<args, blocks, bCalls, bErr, bOut, bPc>>
restVars     == <<rootVars, batchVars>>
vars         == <<resolverVars, watchVars, opsVars, restVars>>

----------------------------------------------------------------------------
(* Bounds of the model *)
MaxTildes    == 3      \* longest run of '~' in a generated query
MaxSuffixLen == 2      \* longest text after the tildes in a generated query
MaxHead      == 4      \* highest level the node has in a resolver run
MaxHeads     == 3      \* notifications delivered in a watch run
MaxSubs      == 2      \* subscriptions opened in a watch run
MaxLevel     == 2      \* highest level of a head notification
MaxContents  == 2      \* longest contents list of the first operation of a block
MaxArgs      == 2      \* most block references on a command line
QueueHeads   == 22     \* notifications of a `block' run that fills both queues
QueueOpHeads == 4      \* notifications of an `operations' run that fills tplCh
QueueOpsPer  == 34     \* operation records of each block of that run
FairHeads    == 2      \* notifications of a fairly scheduled run
FairSubs     == 2      \* subscriptions of a fairly scheduled run

(* Program constants *)
ChCap        == 10     \* make(chan *tezos.BlockInfo, 10)
BlockTplCap  == 10     \* make(chan *xblockInfo, 10)
OpTplCap     == 100    \* make(chan *opInfo, 100)
Int32Bits    == 32     \* strconv.ParseInt(..., 10, 32)
MutezPerTez  == 1000000  \* big.NewFloat(1e-6)

----------------------------------------------------------------------------
(* Characters and strings *)
Digits    == <<"0", "1", "2", "3", "4", "5", "6", "7", "8", "9">>
DigitSet  == {Digits[i] : i \in 1..10}
LowerCase == {"a","b","c","d","e","f","g","h","i","j","k","l","m",
              "n","o","p","q","r","s","t","u","v","w","x","y","z"}
UpperCase == {"A","B","C","D","E","F","G","H","I","J","K","L","M",
              "N","O","P","Q","R","S","T","U","V","W","X","Y","Z"}

DigitVal(c) == (CHOOSE i \in 1..10 : Digits[i] = c) - 1

\* largest value of a signed integer of bitSize bits (32 is the only width used)
MaxSigned(bitSize) == IF bitSize = 32 THEN 2147483647 ELSE 32767

\* query[i] >= '0' && query[i] <= '9' || ... 'a'..'z' || ... 'A'..'Z'
IsAlnum(c) == c \in DigitSet \/ c \in LowerCase \/ c \in UpperCase

RECURSIVE DigitsValue(_)
DigitsValue(s) ==
    IF Len(s) = 0 THEN 0
    ELSE 10 * DigitsValue(SubSeq(s, 1, Len(s) - 1)) + DigitVal(s[Len(s)])

\* strconv.ParseInt(s, 10, bitSize): optional sign, then one or more decimal
\* digits; the value has to fit bitSize bits.  Texts of ten or more digits
\* are taken as out of range (they are longer than any text generated here).
ParseInt(s, bitSize) ==
    LET signed == Len(s) > 0 /\ s[1] \in {"+", "-"}
        body   == IF signed THEN SubSeq(s, 2, Len(s)) ELSE s
        neg    == signed /\ s[1] = "-"
    IN  IF Len(body) = 0 \/ \E j \in 1..Len(body) : body[j] \notin DigitSet
        THEN [err |-> "ErrSyntax", v |-> 0]
        ELSE IF Len(body) > 9
        THEN [err |-> "ErrRange", v |-> 0]
        ELSE LET u == DigitsValue(body)
             IN  IF (~neg /\ u > MaxSigned(bitSize)) \/ (neg /\ u - 1 > MaxSigned(bitSize))
                 THEN [err |-> "ErrRange", v |-> 0]
                 ELSE [err |-> "nil", v |-> IF neg THEN 0 - u ELSE u]

RECURSIVE NatText(_)
NatText(n) ==
    IF n < 10 THEN <<Digits[n + 1]>>
    ELSE Append(NatText(n \div 10), Digits[(n % 10) + 1])

\* strconv.FormatInt(n, 10) and strconv.Itoa(n)
FormatInt(n) == IF n < 0 THEN <<"-">> \o NatText(0 - n) ELSE NatText(n)

----------------------------------------------------------------------------
(* The node service (environment): a chain with levels 0..head.  The block *)
(* of the main chain at level l has hash B<l>a; B<l>b is another head seen  *)
(* at that level.  A call fails with a transport error when the scenario    *)
(* says so, and with the cancellation error when the context is cancelled.  *)
HeadText == <<"h", "e", "a", "d">>
HashOf(l, v) == <<"B">> \o FormatInt(l) \o <<v>>
NoBlock == [level |-> -1, hash |-> <<>>]

IsHash(id) ==
    /\ Len(id) >= 3
    /\ id[1] = "B"
    /\ id[Len(id)] \in {"a", "b"}
    /\ \A j \in 2..(Len(id) - 1) : id[j] \in DigitSet

HashLevel(id) == DigitsValue(SubSeq(id, 2, Len(id) - 1))

\* service.GetBlock(ctx, chainID, id), the n-th call of one getBlock.
\* nd.fail = 0: no failure; otherwise call nd.fail fails with nd.failErr, and
\* once the context is cancelled every later call fails the same way.
ServiceGetBlock(nd, id, n) ==
    IF nd.fail /= 0 /\ nd.failErr = "Canceled" /\ n >= nd.fail
    THEN [err |-> "Canceled", block |-> NoBlock]
    ELSE IF nd.fail = n THEN [err |-> nd.failErr, block |-> NoBlock]
    ELSE IF id = HeadText
         THEN [err |-> "nil", block |-> [level |-> nd.head, hash |-> HashOf(nd.head, "a")]]
    ELSE IF IsHash(id) /\ HashLevel(id) <= nd.head
         THEN [err |-> "nil", block |-> [level |-> HashLevel(id), hash |-> id]]
    ELSE LET p == ParseInt(id, Int32Bits)
         IN  IF p.err = "nil" /\ p.v >= 0 /\ p.v <= nd.head
             THEN [err |-> "nil", block |-> [level |-> p.v, hash |-> HashOf(p.v, "a")]]
             ELSE [err |-> "NotFound", block |-> NoBlock]

----------------------------------------------------------------------------
(* getBlock, src/cmd/block.go:300-375 *)

\* lines 301-306: length of the longest alphanumeric prefix
AnchorEnd(q) ==
    CHOOSE i \in 0..Len(q) :
        /\ \A j \in 1..i : IsAlnum(q[j])
        /\ (i = Len(q) \/ ~IsAlnum(q[i + 1]))

TildeRun_One(q, i) == 1

\* lines 314-317: number of consecutive '~' after the first i characters
TildeRun(q, i) ==
    CHOOSE k \in 0..(Len(q) - i) :
        /\ \A j \in 1..k : q[i + j] = "~"
        /\ (i + k = Len(q) \/ q[i + k + 1] /= "~")

ExplicitOffset_Added(count, v) == count + v

\* line 325: offset = int(v)
ExplicitOffset(count, v) == v

\* lines 308-329
ParseOffset(q, i) ==
    IF i >= Len(q) THEN [err |-> "nil", offset |-> 0]
    ELSE LET tilde == q[i + 1] = "~"
             sign  == IF tilde THEN -1 ELSE 1
             count == IF tilde THEN TildeRun(q, i) ELSE 0
             j     == i + count
         IN  IF j < Len(q)
             THEN LET p == ParseInt(SubSeq(q, j + 1, Len(q)), Int32Bits)
                  IN  IF p.err /= "nil"
                      THEN [err |-> p.err, offset |-> 0]
                      ELSE [err |-> "nil", offset |-> ExplicitOffset(count, p.v) * sign]
             ELSE [err |-> "nil", offset |-> count * sign]

\* line 336
IsLevelAnchor(id) == Len(id) = 0 \/ id[1] \in DigitSet

LevelLookupId_NoOffset(level, offset) == FormatInt(level)

\* line 347: strconv.FormatInt(int64(level+offset), 10)
LevelLookupId(level, offset) == FormatInt(level + offset)

Call(id, line) == [id |-> id, at |-> line]
GbError(e, calls) ==
    [err |-> e, block |-> NoBlock, successor |-> NoBlock, calls |-> calls]

WithSuccessor_Propagate(block, succ, nd, calls) ==
    IF succ
    THEN LET id == FormatInt(block.level + 1)
             r  == ServiceGetBlock(nd, id, Len(calls) + 1)
         IN  IF r.err /= "nil" THEN GbError(r.err, Append(calls, Call(id, 371)))
             ELSE [err |-> "nil", block |-> block, successor |-> r.block,
                   calls |-> Append(calls, Call(id, 371))]
    ELSE [err |-> "nil", block |-> block, successor |-> NoBlock, calls |-> calls]

\* lines 366-374
WithSuccessor(block, succ, nd, calls) ==
    IF succ
    THEN LET id == FormatInt(block.level + 1)
             r  == ServiceGetBlock(nd, id, Len(calls) + 1)
         IN  [err |-> "nil", block |-> block, successor |-> r.block,
              calls |-> Append(calls, Call(id, 371))]
    ELSE [err |-> "nil", block |-> block, successor |-> NoBlock, calls |-> calls]

LevelBranch_IgnoreParseErr(id, offset, succ, nd) ==
    LET p   == IF Len(id) /= 0 THEN ParseInt(id, Int32Bits) ELSE [err |-> "nil", v |-> 0]
        lid == LevelLookupId(p.v, offset)
        r   == ServiceGetBlock(nd, lid, 1)
        c1  == <<Call(lid, 347)>>
    IN  IF r.err /= "nil" THEN GbError(r.err, c1)
        ELSE WithSuccessor(r.block, succ, nd, c1)

\* lines 336-350
LevelBranch(id, offset, succ, nd) ==
    LET p == IF Len(id) /= 0 THEN ParseInt(id, Int32Bits) ELSE [err |-> "nil", v |-> 0]
    IN  IF p.err /= "nil" THEN GbError(p.err, <<>>)
        ELSE LET lid == LevelLookupId(p.v, offset)
                 r   == ServiceGetBlock(nd, lid, 1)
                 c1  == <<Call(lid, 347)>>
             IN  IF r.err /= "nil" THEN GbError(r.err, c1)
                 ELSE WithSuccessor(r.block, succ, nd, c1)

TraverseBranch_AlwaysSecond(id, offset, succ, nd) ==
    LET r1 == ServiceGetBlock(nd, id, 1)
        c1 == <<Call(id, 353)>>
    IN  IF r1.err /= "nil" THEN GbError(r1.err, c1)
        ELSE LET oid == FormatInt(r1.block.level + offset)
                 r2  == ServiceGetBlock(nd, oid, 2)
                 c2  == Append(c1, Call(oid, 359))
             IN  IF r2.err /= "nil" THEN GbError(r2.err, c2)
                 ELSE WithSuccessor(r2.block, succ, nd, c2)

\* lines 351-364
TraverseBranch(id, offset, succ, nd) ==
    LET r1 == ServiceGetBlock(nd, id, 1)
        c1 == <<Call(id, 353)>>
    IN  IF r1.err /= "nil" THEN GbError(r1.err, c1)
        ELSE IF offset /= 0
        THEN LET oid == FormatInt(r1.block.level + offset)
                 r2  == ServiceGetBlock(nd, oid, 2)
                 c2  == Append(c1, Call(oid, 359))
             IN  IF r2.err /= "nil" THEN GbError(r2.err, c2)
                 ELSE WithSuccessor(r2.block, succ, nd, c2)
        ELSE WithSuccessor(r1.block, succ, nd, c1)

\* lines 300-375
getBlock(q, succ, nd) ==
    LET i  == AnchorEnd(q)
        id == SubSeq(q, 1, i)
        po == ParseOffset(q, i)
    IN  IF po.err /= "nil" THEN GbError(po.err, <<>>)
        ELSE IF IsLevelAnchor(id) THEN LevelBranch(id, po.offset, succ, nd)
        ELSE TraverseBranch(id, po.offset, succ, nd)

----------------------------------------------------------------------------
(* Resolver runs: one call of getBlock on a generated reference *)
Anchors == { <<>>, HeadText, <<"3">>, <<"1", "2">>, <<"0", "0", "2">>,
             <<"2", "a">>, HashOf(2, "a"), HashOf(1, "b") }
SuffixChars == {"0", "2", "5", "+", "-", "x", "~"}

RECURSIVE Strings(_, _)
Strings(chars, n) ==
    IF n = 0 THEN { <<>> }
    ELSE LET shorter == Strings(chars, n - 1)
         IN  shorter \cup { Append(s, c) : s \in shorter, c \in chars }

Tildes(k) == [j \in 1..k |-> "~"]

Queries == { a \o Tildes(k) \o s :
               a \in Anchors, k \in 0..MaxTildes, s \in Strings(SuffixChars, MaxSuffixLen) }

Nodes == { [head |-> MaxHead, fail |-> 0, failErr |-> "Transport"] } \cup
         [head : {MaxHead}, fail : 1..3, failErr : {"Transport", "Canceled"}]

NoResult == GbError("none", <<>>)
IdleNode == [head |-> 0, fail |-> 0, failErr |-> "Transport"]

ResolverIdle ==
    /\ query = <<>>
    /\ getSuccessor = FALSE
    /\ node = IdleNode
    /\ xb = NoResult
    /\ gbPc = "idle"

\* heads, subs: notifications and subscriptions of the run; chain: the node
\* announces each level once, in order; faults: lookups, subscriptions and
\* sinks may fail; top: the node's head level; opsPer: operation records of
\* a main chain block
Env(h, n, chain, faults, top, opsPer) ==
    [heads |-> h, subs |-> n, chain |-> chain, faults |-> faults, top |-> top,
     opsPer |-> opsPer]

IdleEnv == Env(0, 0, FALSE, FALSE, 0, 0)

WatchIdle ==
    /\ cmd = "none" /\ sink = "enc" /\ env = IdleEnv /\ ctxCancelled = FALSE
    /\ monPc = "closed" /\ monErr = "nil" /\ subs = 0 /\ lastSubErr = "nil"
    /\ ch = <<>> /\ chClosed = FALSE /\ heads = <<>>
    /\ lastLevel = 0 /\ firstBlockReceived = FALSE
    /\ pc = "done" /\ cur = NoBlock /\ sendLeft = 0 /\ result = "none"
    /\ received = <<>> /\ resolved = <<>> /\ resolveErr = "nil" /\ dispatched = <<>>
    /\ tplCh = <<>> /\ tplChClosed = FALSE /\ tplSem = FALSE /\ tplErr = "nil"
    /\ tplPc = "off" /\ rendered = <<>>

NilFilter == [isNil |-> TRUE, set |-> {}]

\* no aggregate computed yet
NoInfo == [block |-> NoBlock]

OpsIdle ==
    /\ opKinds = <<>> /\ oWatch = FALSE /\ oBlock = <<>> /\ kinds = NilFilter
    /\ oPc = "idle" /\ oErr = "nil" /\ oErrArg = "" /\ oCalls = 0 /\ oSubs = 0
    /\ oXb = NoBlock /\ oInfo = NoInfo /\ oRecords = <<>> /\ oOut = <<>>

RootIdle ==
    /\ useColors = FALSE /\ isTerminal = FALSE /\ clientFails = FALSE
    /\ levelFlag = "info" /\ colorizer = FALSE /\ service = "unset"
    /\ logLevel = "info" /\ preErr = "nil" /\ prePc = "idle"

BatchIdle ==
    /\ args = <<>> /\ blocks = <<>> /\ bCalls = <<>> /\ bErr = "nil"
    /\ bOut = <<>> /\ bPc = "idle"

RestIdle == RootIdle /\ BatchIdle

InitResolve ==
    /\ query \in Queries
    /\ getSuccessor \in BOOLEAN
    /\ node \in Nodes
    /\ xb = NoResult
    /\ gbPc = "ready"
    /\ WatchIdle
    /\ OpsIdle
    /\ RestIdle

CallGetBlock ==
    /\ gbPc = "ready"
    /\ xb' = getBlock(query, getSuccessor, node)
    /\ gbPc' = "returned"
    /\ UNCHANGED <<query, getSuccessor, node, watchVars, opsVars, restVars>>

NextResolve == CallGetBlock

SpecResolve == InitResolve /\ [][NextResolve]_vars

----------------------------------------------------------------------------
(* Watch runs: NewBlockCommand.RunE, src/cmd/block.go:183-247 and           *)
(* newBlockOperationsCommand.RunE, src/unnamed/part_002:89-169              *)

\* a head notification (tezos.BlockInfo): Hash and Level.  The node announces
\* the main chain heads of levels 1..MaxLevel, in any order and any number of
\* times, and one competing head at level 1.
Notifications ==
    { [hash |-> HashOf(l, "a"), level |-> l] : l \in 1..MaxLevel } \cup
    { [hash |-> HashOf(1, "b"), level |-> 1] }

\* operation records getBlockOperations yields for a block of the scenario:
\* the main chain blocks carry env.opsPer of them, the other heads none
OpsOf(hash) == IF hash[Len(hash)] = "a" THEN env.opsPer ELSE 0

\* what the open subscription may announce next
Announced ==
    IF env.chain
    THEN { [hash |-> HashOf(Len(heads) + 1, "a"), level |-> Len(heads) + 1] }
    ELSE Notifications

\* outcomes of a step that can fail
Faults(all, good) == IF env.faults THEN all ELSE good

\* the node as seen by one getBlock call of the loop
WatchNode(cancelled, f) ==
    [head |-> env.top,
     fail |-> IF cancelled THEN 1 ELSE f,
     failErr |-> IF cancelled THEN "Canceled" ELSE "Transport"]

monitorHeadsLoops_Once(err) == FALSE

\* block.go:379  for err == nil
monitorHeadsLoops(err) == err = "nil"

Filtered_Strict(c, first, level, last) == c = "operations" /\ first /\ level < last

\* part_002:119  if firstBlockReceived && bi.Level <= lastLevel { continue }
\* (block.go:208-209 has no such test)
Filtered(c, first, level, last) == c = "operations" /\ first /\ level <= last

GetBlockErrorResult_Swallow(err) == "nil"

GetBlockErrorResult_Raw(err) == err

\* block.go:210-215, part_002:126-131
GetBlockErrorResult(err) == IF err /= "Canceled" THEN err ELSE "nil"

FinalResult_Nil(mErr) == "nil"

\* block.go:243-246, part_002:165-168
FinalResult(mErr) == IF mErr /= "nil" /\ mErr /= "Canceled" THEN mErr ELSE "nil"

\* block.go:238-241, part_002:160-163 followed by the monErr check
AfterSemResult(tErr, mErr) == IF tErr /= "nil" THEN tErr ELSE FinalResult(mErr)

TplCap_Swapped(c) == IF c = "operations" THEN BlockTplCap ELSE OpTplCap

TplCap_Nil(c) == 0

\* block.go:198, part_002:104
TplCap(c) == IF c = "operations" THEN OpTplCap ELSE BlockTplCap

WatchStart ==
    /\ ResolverIdle
    /\ OpsIdle
    /\ RestIdle
    /\ cmd \in {"block", "operations"}
    /\ sink \in {"enc", "user", "queue"}
    /\ ctxCancelled = FALSE
    /\ monPc = "loop" /\ monErr = "nil" /\ subs = 0 /\ lastSubErr = "nil"
    /\ ch = <<>> /\ chClosed = FALSE /\ heads = <<>>
    /\ lastLevel = 0 /\ firstBlockReceived = FALSE
    /\ pc = "range" /\ cur = NoBlock /\ sendLeft = 0 /\ result = "none"
    /\ received = <<>> /\ resolved = <<>> /\ resolveErr = "nil" /\ dispatched = <<>>
    /\ tplCh = <<>> /\ tplChClosed = FALSE /\ tplSem = FALSE /\ tplErr = "nil"
    /\ tplPc = (IF sink = "queue" THEN "running" ELSE "off")
    /\ rendered = <<>>

\* a run against a node that repeats and reorders its announcements
InitWatch ==
    /\ WatchStart
    /\ env = Env(MaxHeads, MaxSubs, FALSE, TRUE, MaxLevel, 1)

\* the process is running: RunE has not returned
Running == pc /= "done"

\* the caller cancels c.context
Cancel ==
    /\ Running
    /\ ~ctxCancelled
    /\ ctxCancelled' = TRUE
    /\ UNCHANGED <<resolverVars, opsVars, restVars, cmd, sink, env, monVars, loopVars, tplVars>>

\* block.go:380  monitorHeads calls c.service.MonitorHeads
MonSubscribe ==
    /\ Running
    /\ monPc = "loop"
    /\ subs < env.subs
    /\ monPc' = "stream"
    /\ subs' = subs + 1
    /\ UNCHANGED <<resolverVars, opsVars, restVars, cmd, sink, env, ctxCancelled, monErr, lastSubErr, ch,
                   chClosed, heads, loopVars, tplVars>>

\* the open subscription sends a head notification into results
MonDeliver ==
    /\ Running
    /\ monPc = "stream"
    /\ Len(heads) < env.heads
    /\ Len(ch) < ChCap
    /\ \E bi \in Announced :
         /\ ch' = Append(ch, bi)
         /\ heads' = Append(heads, [bi |-> bi, sub |-> subs])
    /\ UNCHANGED <<resolverVars, opsVars, restVars, cmd, sink, env, ctxCancelled, monPc, monErr, subs,
                   lastSubErr, chClosed, loopVars, tplVars>>

\* block.go:379-382  c.service.MonitorHeads returns e: the node closed the
\* connection (nil), the transport failed, or the context was cancelled
MonEnd ==
    /\ Running
    /\ monPc = "stream"
    /\ \E e \in Faults({"nil", "Transport", "Canceled"}, {"nil"}) :
         /\ e = "nil" => subs < env.subs
         /\ e = "Canceled" => ctxCancelled
         /\ lastSubErr' = e
         /\ IF monitorHeadsLoops(e)
            THEN monPc' = "loop" /\ UNCHANGED monErr
            ELSE monPc' = "returned" /\ monErr' = e
    /\ UNCHANGED <<resolverVars, opsVars, restVars, cmd, sink, env, ctxCancelled, subs, ch, chClosed, heads,
                   loopVars, tplVars>>

\* block.go:188, part_002:94  close(ch)
MonClose ==
    /\ Running
    /\ monPc = "returned"
    /\ chClosed' = TRUE
    /\ monPc' = "closed"
    /\ UNCHANGED <<resolverVars, opsVars, restVars, cmd, sink, env, ctxCancelled, monErr, subs, lastSubErr,
                   ch, heads, loopVars, tplVars>>

\* block.go:208-215, part_002:118-131  one notification taken from ch
LoopRecv ==
    /\ pc = "range"
    /\ ch /= <<>>
    /\ LET bi == Head(ch)
       IN  /\ ch' = Tail(ch)
           /\ IF Filtered(cmd, firstBlockReceived, bi.level, lastLevel)
              THEN /\ received' = Append(received, [bi |-> bi, accepted |-> FALSE])
                   /\ UNCHANGED <<lastLevel, firstBlockReceived, pc, cur, result,
                                  resolved, resolveErr>>
              ELSE /\ received' = Append(received, [bi |-> bi, accepted |-> TRUE])
                   /\ IF cmd = "operations"
                      THEN firstBlockReceived' = TRUE /\ lastLevel' = bi.level
                      ELSE UNCHANGED <<firstBlockReceived, lastLevel>>
                   /\ resolved' = Append(resolved, bi.hash)
                   /\ \E f \in Faults(0..1, {0}) :
                        LET r == getBlock(bi.hash, FALSE, WatchNode(ctxCancelled, f))
                        IN  IF r.err /= "nil"
                            THEN /\ resolveErr' = r.err
                                 /\ result' = GetBlockErrorResult(r.err)
                                 /\ pc' = "done"
                                 /\ UNCHANGED cur
                            ELSE /\ cur' = r.block
                                 /\ pc' = "dispatch"
                                 /\ UNCHANGED <<resolveErr, result>>
    /\ UNCHANGED <<resolverVars, opsVars, restVars, cmd, sink, env, ctxCancelled, monPc, monErr, subs,
                   lastSubErr, chClosed, heads, sendLeft, dispatched, tplVars>>

\* block.go:217-232, part_002:133-154  the resolved block goes to the sink
Dispatch ==
    /\ pc = "dispatch"
    /\ dispatched' = Append(dispatched, cur.level)
    /\ IF sink \in {"enc", "user"}
       THEN /\ \E ok \in Faults(BOOLEAN, {TRUE}) :
                 IF ok THEN pc' = "range" /\ UNCHANGED result
                 ELSE pc' = "done" /\ result' = "SinkErr"
            /\ UNCHANGED <<sendLeft, tplCh>>
       ELSE IF cmd = "block"
       THEN /\ Len(tplCh) < TplCap(cmd)
            /\ tplCh' = Append(tplCh, cur.level)
            /\ pc' = "range"
            /\ UNCHANGED <<sendLeft, result>>
       ELSE /\ sendLeft' = OpsOf(cur.hash)
            /\ pc' = (IF OpsOf(cur.hash) = 0 THEN "range" ELSE "send")
            /\ UNCHANGED <<tplCh, result>>
    /\ UNCHANGED <<resolverVars, opsVars, restVars, cmd, sink, env, ctxCancelled, monVars, lastLevel,
                   firstBlockReceived, cur, received, resolved, resolveErr,
                   tplChClosed, tplSem, tplErr, tplPc, rendered>>

\* part_002:152-154  tplCh <- op
SendOp ==
    /\ pc = "send"
    /\ Len(tplCh) < TplCap(cmd)
    /\ tplCh' = Append(tplCh, cur.level)
    /\ sendLeft' = sendLeft - 1
    /\ pc' = (IF sendLeft = 1 THEN "range" ELSE "send")
    /\ UNCHANGED <<resolverVars, opsVars, restVars, cmd, sink, env, ctxCancelled, monVars, lastLevel,
                   firstBlockReceived, cur, result, received, resolved, resolveErr,
                   dispatched, tplChClosed, tplSem, tplErr, tplPc, rendered>>

\* block.go:233-246, part_002:155-168  ch is closed and drained
LoopEnd ==
    /\ pc = "range"
    /\ ch = <<>>
    /\ chClosed
    /\ IF sink = "queue"
       THEN tplChClosed' = TRUE /\ pc' = "waitSem" /\ UNCHANGED result
       ELSE result' = FinalResult(monErr) /\ pc' = "done" /\ UNCHANGED tplChClosed
    /\ UNCHANGED <<resolverVars, opsVars, restVars, cmd, sink, env, ctxCancelled, monVars, lastLevel,
                   firstBlockReceived, cur, sendLeft, received, resolved, resolveErr,
                   dispatched, tplCh, tplSem, tplErr, tplPc, rendered>>

\* block.go:237-246, part_002:159-168  <-tplSem
WaitSem ==
    /\ pc = "waitSem"
    /\ tplSem
    /\ result' = AfterSemResult(tplErr, monErr)
    /\ pc' = "done"
    /\ UNCHANGED <<resolverVars, opsVars, restVars, cmd, sink, env, ctxCancelled, monVars, lastLevel,
                   firstBlockReceived, cur, sendLeft, received, resolved, resolveErr,
                   dispatched, tplVars>>

\* block.go:203, part_002:109  tpl.Execute ranges over tplCh: one item rendered
TplConsume ==
    /\ Running
    /\ tplPc = "running"
    /\ tplCh /= <<>>
    /\ rendered' = Append(rendered, Head(tplCh))
    /\ tplCh' = Tail(tplCh)
    /\ UNCHANGED <<resolverVars, opsVars, restVars, cmd, sink, env, ctxCancelled, monVars, loopVars,
                   tplChClosed, tplSem, tplErr, tplPc>>

\* block.go:203-204, part_002:109-110  tpl.Execute returns an error (a failed
\* write of an item, or of the heading of the operations table)
TplFail ==
    /\ Running
    /\ tplPc = "running"
    /\ \E item \in BOOLEAN :
         IF item THEN tplCh /= <<>> /\ tplCh' = Tail(tplCh)
         ELSE cmd = "operations" /\ rendered = <<>> /\ UNCHANGED tplCh
    /\ tplErr' = "WriteErr"
    /\ tplSem' = TRUE
    /\ tplPc' = "done"
    /\ UNCHANGED <<resolverVars, opsVars, restVars, cmd, sink, env, ctxCancelled, monVars, loopVars,
                   tplChClosed, rendered>>

\* block.go:203-204, part_002:109-110  tplCh closed and drained: Execute
\* returns nil, close(tplSem)
TplEnd ==
    /\ Running
    /\ tplPc = "running"
    /\ tplCh = <<>>
    /\ tplChClosed
    /\ tplSem' = TRUE
    /\ tplPc' = "done"
    /\ UNCHANGED <<resolverVars, opsVars, restVars, cmd, sink, env, ctxCancelled, monVars, loopVars,
                   tplCh, tplChClosed, tplErr, rendered>>

NextWatch ==
    \/ Cancel
    \/ MonSubscribe
    \/ MonDeliver
    \/ MonEnd
    \/ MonClose
    \/ LoopRecv
    \/ Dispatch
    \/ SendOp
    \/ LoopEnd
    \/ WaitSem
    \/ TplConsume
    \/ TplFail
    \/ TplEnd

SpecWatch == InitWatch /\ [][NextWatch]_vars

\* a run long enough to fill ch and tplCh: the node announces a growing chain
InitQueue ==
    /\ WatchStart
    /\ env = IF cmd = "operations"
             THEN Env(QueueOpHeads, 1, TRUE, TRUE, QueueOpHeads, QueueOpsPer)
             ELSE Env(QueueHeads, 1, TRUE, TRUE, QueueHeads, 1)

SpecQueue == InitQueue /\ [][NextWatch]_vars

\* a run without failures and without cancellation: the node only announces
\* heads and closes connections
InitFair ==
    /\ WatchStart
    /\ env = Env(FairHeads, FairSubs, FALSE, FALSE, MaxLevel, 1)

NextFair ==
    \/ MonSubscribe
    \/ MonDeliver
    \/ MonEnd
    \/ LoopRecv
    \/ Dispatch
    \/ SendOp
    \/ TplConsume

\* the three tasks of the run are scheduled fairly; what the node sends is
\* up to the node
SpecFair ==
    /\ InitFair
    /\ [][NextFair]_vars
    /\ WF_vars(MonSubscribe)
    /\ WF_vars(LoopRecv)
    /\ WF_vars(Dispatch)
    /\ WF_vars(SendOp)
    /\ WF_vars(TplConsume)

----------------------------------------------------------------------------
(* Operation kinds and classification: src/cmd/block.go:53-102 and          *)
(* newBlockOperationsCommand.RunE / getBlockOperations, src/unnamed/part_002 *)

\* block.go:53-65  the op* constants
CanonicalKinds ==
    {"endorsement", "seed_nonce_revelation", "double_endorsement_evidence",
     "double_baking_evidence", "activate_account", "proposals", "ballot",
     "reveal", "transaction", "origination", "delegation"}

\* block.go:68-88  every canonical name is a key, eight kinds have an alias
knownKinds ==
    [k \in CanonicalKinds |-> k] @@
    ("end" :> "endorsement" @@ "act" :> "activate_account" @@
     "prop" :> "proposals" @@ "bal" :> "ballot" @@ "rev" :> "reveal" @@
     "tx" :> "transaction" @@ "orig" :> "origination" @@ "del" :> "delegation")

\* block.go:90-102
operationTitles ==
    "endorsement" :> "Endorsement" @@ "seed_nonce_revelation" :> "Nonce" @@
    "double_endorsement_evidence" :> "Double Endorsement Evidence" @@
    "double_baking_evidence" :> "Double Baking Evidence" @@
    "activate_account" :> "Activation" @@ "proposals" :> "Proposals" @@
    "ballot" :> "Ballot" @@ "reveal" :> "Reveal" @@
    "transaction" :> "Transaction" @@ "origination" :> "Origination" @@
    "delegation" :> "Delegation"

\* operationTitles[kind]: a missing key gives the empty string
TitleOf(kind) == IF kind \in DOMAIN operationTitles THEN operationTitles[kind] ELSE ""

KindLookup_AcceptAll(kind) == [ok |-> TRUE, k |-> kind]

\* part_002:69  k, ok := knownKinds[kind]   (k is "" when the key is missing)
KindLookup(kind) ==
    IF kind \in DOMAIN knownKinds
    THEN [ok |-> TRUE, k |-> knownKinds[kind]]
    ELSE [ok |-> FALSE, k |-> ""]

\* part_002:68-74  the loop over opKinds; the error message formats k
RECURSIVE KindsLoop(_, _)
KindsLoop(ks, acc) ==
    IF ks = <<>>
    THEN [err |-> "nil", arg |-> "", kinds |-> [isNil |-> FALSE, set |-> acc]]
    ELSE LET r == KindLookup(Head(ks)) IN
         IF r.ok
         THEN KindsLoop(Tail(ks), acc \cup {r.k})
         ELSE [err |-> "UnknownKind", arg |-> r.k, kinds |-> [isNil |-> FALSE, set |-> acc]]

\* part_002:65-76  var kinds map[string]struct{}; built only if len(opKinds) != 0
MakeKinds(ks) ==
    IF Len(ks) /= 0
    THEN KindsLoop(ks, {})
    ELSE [err |-> "nil", arg |-> "", kinds |-> NilFilter]

\* part_002:217  _, ok := opsFilter[kind]; !ok && opsFilter != nil
Skipped(opsFilter, kind) == kind \notin opsFilter.set /\ ~opsFilter.isNil

\* ---- content elements the node service returns ----
\* type: the Go type of the element; who: Source, PKH or Metadata.Delegate;
\* to: Destination or Delegate; amount: Amount or Balance (<<>> when nil);
\* fee: OperationFee() (<<>> when nil); meta: Metadata /= nil;
\* updates: Metadata.BalanceUpdates, contract = *tezos.ContractBalanceUpdate,
\* otherwise a *tezos.FreezerBalanceUpdate with its Category
Elem(type, kind, who, to, amount, fee, meta, updates) ==
    [type |-> type, kind |-> kind, who |-> who, to |-> to, amount |-> amount,
     fee |-> fee, meta |-> meta, updates |-> updates]

Upd(contract, category, change) ==
    [contract |-> contract, category |-> category, change |-> change]

\* part_002:230  c.(tezos.OperationWithFee): the manager operations
OperationWithFee(el) ==
    el.type \in {"Transaction", "Reveal", "Origination", "Delegation"}

Elements ==
    { Elem("Endorsement", "endorsement", "tz1d", "", <<>>, <<>>, TRUE, <<Upd(FALSE, "rewards", 2), Upd(FALSE, "deposits", -1)>>),
      Elem("Endorsement", "endorsement", "", "", <<>>, <<>>, FALSE, <<>>),
      Elem("Transaction", "transaction", "tz1a", "tz1b", <<5>>, <<1>>, TRUE, <<>>),
      Elem("Transaction", "transaction", "tz1a", "tz1b", <<>>, <<>>, FALSE, <<>>),
      Elem("Transaction", "transaction", "tz1a", "KT1c", <<0>>, <<0>>, TRUE, <<>>),
      Elem("Transaction", "transaction", "tz1b", "tz1a", <<1000000>>, <<1000>>, TRUE, <<>>),
      Elem("Ballot", "ballot", "tz1a", "", <<>>, <<>>, TRUE, <<>>),
      Elem("Proposal", "proposals", "tz1a", "", <<>>, <<>>, TRUE, <<>>),
      Elem("Reveal", "reveal", "tz1a", "", <<>>, <<1>>, TRUE, <<>>),
      Elem("ActivateAccount", "activate_account", "tz1p", "", <<>>, <<>>, TRUE,
           <<Upd(TRUE, "", 5), Upd(TRUE, "", -2), Upd(FALSE, "rewards", 3)>>),
      Elem("ActivateAccount", "activate_account", "tz1p", "", <<>>, <<>>, TRUE,
           <<Upd(TRUE, "", 5), Upd(FALSE, "rewards", 3)>>),
      Elem("ActivateAccount", "activate_account", "tz1p", "", <<>>, <<>>, TRUE, <<>>),
      Elem("ActivateAccount", "activate_account", "tz1p", "", <<>>, <<>>, FALSE, <<>>),
      Elem("Origination", "origination", "tz1a", "tz1d", <<3>>, <<1>>, TRUE, <<>>),
      Elem("Delegation", "delegation", "tz1a", "tz1d", <<>>, <<>>, TRUE, <<>>),
      Elem("Generic", "seed_nonce_revelation", "", "", <<>>, <<>>, TRUE, <<>>),
      Elem("Generic", "other", "", "", <<>>, <<>>, TRUE, <<>>) }

\* an operation: its hash and its contents
Op(hash, contents) == [hash |-> hash, contents |-> contents]

RECURSIVE ContentLists(_)
ContentLists(n) ==
    IF n = 0 THEN {<<>>}
    ELSE LET shorter == ContentLists(n - 1) IN
         shorter \cup { Append(s, e) : s \in { t \in shorter : Len(t) = n - 1 },
                                       e \in Elements }

\* the operation lists of a block: one list with one operation, or two lists,
\* the first with two operations
TailElements ==
    { e \in Elements : e.kind \in {"transaction", "endorsement"} /\ e.meta
                                                               /\ e.who /= "tz1b" }

BlockOperations ==
    { << <<Op("oA", c)>> >> : c \in ContentLists(MaxContents) } \cup
    { << <<Op("oA", c), Op("oB", <<e2>>)>>, <<Op("oC", <<e3>>)>> >> :
        c \in ContentLists(MaxContents), e2 \in TailElements, e3 \in TailElements }

\* part_002:233,245,266,276,286  Mul(x, big.NewFloat(1e-6)): base units to
\* display units, kept as an exact fraction
Scaled(n) == [num |-> n, den |-> MutezPerTez]

\* part_002:260-265  every *tezos.ContractBalanceUpdate adds its Change
RECURSIVE ContractChanges(_)
ContractChanges(updates) ==
    IF updates = <<>> THEN 0
    ELSE (IF Head(updates).contract THEN Head(updates).change ELSE 0)
         + ContractChanges(Tail(updates))

\* part_002:240,260  el.Metadata.Delegate / el.Metadata.BalanceUpdates are read
\* without a nil test
NilDeref(c) == c.type \in {"Endorsement", "ActivateAccount"} /\ ~c.meta

\* part_002:223-289  the record built for one content element
opInfoOf(hash, c, b) ==
    LET fee  == IF OperationWithFee(c) /\ c.fee /= <<>>
                THEN <<Scaled(c.fee[1])>> ELSE <<>>
        bal  == IF c.amount /= <<>> THEN <<Scaled(c.amount[1])>> ELSE <<>>
        oi   == [Kind |-> c.kind, Hash |-> hash, Title |-> TitleOf(c.kind),
                 Block |-> b, Fee |-> fee, Source |-> "", Destination |-> "",
                 Amount |-> <<>>]
    IN  CASE c.type = "Endorsement" -> [oi EXCEPT !.Source = c.who]
          [] c.type = "Transaction" ->
                [oi EXCEPT !.Source = c.who, !.Destination = c.to, !.Amount = bal]
          [] c.type \in {"Ballot", "Proposal", "Reveal"} -> [oi EXCEPT !.Source = c.who]
          [] c.type = "ActivateAccount" ->
                [oi EXCEPT !.Source = c.who,
                           !.Amount = <<Scaled(ContractChanges(c.updates))>>]
          [] c.type \in {"Origination", "Delegation"} ->
                [oi EXCEPT !.Source = c.who, !.Destination = c.to, !.Amount = bal]
          [] OTHER -> oi

RECURSIVE Flatten(_)
Flatten(ss) == IF ss = <<>> THEN <<>> ELSE Head(ss) \o Flatten(Tail(ss))

\* part_002:215-217  the three nested loops: lists, operations, contents
ContentsInOrder(operations) ==
    Flatten([i \in 1..Len(operations) |->
        Flatten([j \in 1..Len(operations[i]) |->
            [k \in 1..Len(operations[i][j].contents) |->
                [hash |-> operations[i][j].hash, el |-> operations[i][j].contents[k]]]])])

\* part_002:214-297  panic: a nil Metadata was dereferenced, nothing is returned
getBlockOperations(b, operations, opsFilter) ==
    LET kept == SelectSeq(ContentsInOrder(operations),
                          LAMBDA x : ~Skipped(opsFilter, x.el.kind))
    IN  IF \E i \in 1..Len(kept) : NilDeref(kept[i].el)
        THEN [panic |-> TRUE, info |-> <<>>]
        ELSE [panic |-> FALSE,
              info |-> [i \in 1..Len(kept) |-> opInfoOf(kept[i].hash, kept[i].el, b)]]

\* block.go:397-403  the fee an element adds to bi.Fees, in base units
ElemFee_TransactionOnly(el) ==
    IF el.type = "Transaction" /\ el.fee /= <<>> THEN el.fee[1] ELSE 0

ElemFee(el) == IF OperationWithFee(el) /\ el.fee /= <<>> THEN el.fee[1] ELSE 0

\* block.go:405-411  the amount an element adds to bi.Volume, in base units
ElemVolume(el) ==
    IF el.type = "Transaction" /\ el.amount /= <<>> THEN el.amount[1] ELSE 0

\* the total of a sequence of numbers
RECURSIVE SumSeq(_)
SumSeq(seq) == IF seq = <<>> THEN 0 ELSE Head(seq) + SumSeq(Tail(seq))

\* block.go:385-420  xblockInfo has the fields Volume, Fees and OperationsNum
getBlockInfo(b, operations) ==
    LET all == ContentsInOrder(operations) IN
    [block |-> b,
     OperationsNum |-> Len(all),
     Volume |-> Scaled(SumSeq([i \in 1..Len(all) |-> ElemVolume(all[i].el)])),
     Fees |-> Scaled(SumSeq([i \in 1..Len(all) |-> ElemFee(all[i].el)]))]

\* ---- a run of `block operations' with the standard template ----
KindArgs ==
    { <<>>, <<"tx">>, <<"transaction", "del">>, <<"end">>, <<"act", "orig">>,
      <<"seed_nonce_revelation">>, <<"all">>, <<"xyz">>, <<"tx", "xyz">> }

InitOps ==
    /\ ResolverIdle
    /\ WatchIdle
    /\ RestIdle
    /\ opKinds \in KindArgs
    /\ oWatch \in BOOLEAN
    /\ oBlock \in IF oWatch THEN {<<>>} ELSE BlockOperations
    /\ kinds = NilFilter
    /\ oPc = "start" /\ oErr = "nil" /\ oErrArg = "" /\ oCalls = 0 /\ oSubs = 0
    /\ oXb = NoBlock /\ oInfo = NoInfo /\ oRecords = <<>> /\ oOut = <<>>

\* part_002:65-76
ValidateKinds ==
    /\ oPc = "start"
    /\ LET v == MakeKinds(opKinds) IN
        IF v.err /= "nil"
        THEN /\ oErr' = v.err /\ oErrArg' = v.arg /\ oPc' = "done"
             /\ UNCHANGED kinds
        ELSE /\ kinds' = v.kinds
             /\ oPc' = IF oWatch THEN "watch" ELSE "resolve"
             /\ UNCHANGED <<oErr, oErrArg>>
    /\ UNCHANGED <<resolverVars, watchVars, restVars, opKinds, oWatch, oBlock, oCalls, oSubs,
                   oXb, oInfo, oRecords, oOut>>

\* part_002:89-95  go func() { monErr = ctx.monitorHeads(ch); close(ch) }()
OpsStartWatch ==
    /\ oPc = "watch"
    /\ oSubs' = oSubs + 1
    /\ oPc' = "watching"
    /\ UNCHANGED <<resolverVars, watchVars, restVars, opKinds, oWatch, oBlock, kinds, oErr,
                   oErrArg, oCalls, oXb, oInfo, oRecords, oOut>>

\* part_002:172-179  block, err := ctx.getBlock(blockID, enc == nil), args = ["head"]
OpsResolve ==
    /\ oPc = "resolve"
    /\ \E f \in 0..1 :
        LET r == getBlock(HeadText, TRUE,
                          [head |-> MaxHead, fail |-> f, failErr |-> "Transport"]) IN
        /\ oCalls' = oCalls + Len(r.calls)
        /\ IF r.err /= "nil"
           THEN oErr' = r.err /\ oPc' = "done" /\ UNCHANGED oXb
           ELSE oXb' = r.block /\ oPc' = "classify" /\ UNCHANGED oErr
    /\ UNCHANGED <<resolverVars, watchVars, restVars, opKinds, oWatch, oBlock, kinds, oErrArg,
                   oSubs, oInfo, oRecords, oOut>>

\* part_002:190-193  info = append(info, getBlockOperations(getBlockInfo(b), kinds)...)
OpsClassify ==
    /\ oPc = "classify"
    /\ oInfo' = getBlockInfo(oXb, oBlock)
    /\ LET r == getBlockOperations(oXb, oBlock, kinds) IN
        IF r.panic
        THEN oPc' = "panic" /\ UNCHANGED oRecords
        ELSE oPc' = "output" /\ oRecords' = r.info
    /\ UNCHANGED <<resolverVars, watchVars, restVars, opKinds, oWatch, oBlock, kinds, oErr,
                   oErrArg, oCalls, oSubs, oXb, oOut>>

\* part_002:204-205  return tpl.Execute(os.Stdout, info)
OpsOutput ==
    /\ oPc = "output"
    /\ \E ok \in BOOLEAN :
        /\ oOut' = IF ok THEN oRecords ELSE <<>>
        /\ oErr' = IF ok THEN "nil" ELSE "WriteErr"
    /\ oPc' = "done"
    /\ UNCHANGED <<resolverVars, watchVars, restVars, opKinds, oWatch, oBlock, kinds, oErrArg,
                   oCalls, oSubs, oXb, oInfo, oRecords>>

NextOps ==
    \/ ValidateKinds
    \/ OpsStartWatch
    \/ OpsResolve
    \/ OpsClassify
    \/ OpsOutput

SpecOps == InitOps /\ [][NextOps]_vars

----------------------------------------------------------------------------
(* The root command's pre-run hook: NewRootCommand, src/cmd/root.go:59-77 *)

\* the level names log.ParseLevel knows
LogLevels == {"panic", "fatal", "error", "warn", "warning", "info", "debug", "trace"}

\* root.go:69  lv, err := log.ParseLevel(level)
ParseLevel(lvl) ==
    IF lvl \in LogLevels
    THEN [err |-> "nil", lv |-> IF lvl = "warning" THEN "warn" ELSE lvl]
    ELSE [err |-> "InvalidLevel", lv |-> "panic"]

\* values of the --log flag
LevelArgs == LogLevels \cup {"", "loud", "verbose", "3"}

\* root.go:62-65  client, err := tezos.NewRPCClient(nil, c.tezosURL), wrapped
ClientError(fails) == IF fails THEN "ClientInitErr" ELSE "nil"

\* root.go:69-76  err is assigned again by ParseLevel and then returned
PreRunResult(clientErr, levelErr) == levelErr

InitRoot ==
    /\ ResolverIdle
    /\ WatchIdle
    /\ OpsIdle
    /\ BatchIdle
    /\ useColors \in BOOLEAN
    /\ isTerminal \in BOOLEAN
    /\ clientFails \in BOOLEAN
    /\ levelFlag \in LevelArgs
    /\ colorizer = FALSE /\ service = "unset" /\ logLevel = "info"
    /\ preErr = "nil" /\ prePc = "start"

\* root.go:59-77
PersistentPreRunE ==
    /\ prePc = "start"
    /\ colorizer' = (useColors /\ isTerminal)
    /\ service' = (IF clientFails THEN "noClient" ELSE "client")
    /\ LET p == ParseLevel(levelFlag) IN
        /\ preErr' = PreRunResult(ClientError(clientFails), p.err)
        /\ logLevel' = IF p.err /= "nil" THEN logLevel ELSE p.lv
    /\ prePc' = "done"
    /\ UNCHANGED <<resolverVars, watchVars, opsVars, batchVars, useColors,
                   isTerminal, clientFails, levelFlag>>

NextRoot == PersistentPreRunE

SpecRoot == InitRoot /\ [][NextRoot]_vars

----------------------------------------------------------------------------
(* Non-watch runs: NewBlockCommand.RunE, src/cmd/block.go:249-279 and        *)
(* newBlockOperationsCommand.RunE, src/unnamed/part_002:171-205             *)

\* references given on the command line
BatchQueries ==
    { HeadText, <<"1">>, <<"2">>, <<"3">>, HeadText \o <<"~", "3">>,
      <<"9">>, <<"2", "a">> }

RECURSIVE ArgLists(_)
ArgLists(n) ==
    IF n = 0 THEN {<<>>}
    ELSE LET shorter == ArgLists(n - 1) IN
         shorter \cup { Append(s, q) : s \in { t \in shorter : Len(t) = n - 1 },
                                       q \in BatchQueries }

\* the operations of the blocks of the node: a transaction at level 1, a
\* transaction, an endorsement and an operation without contents at level 2,
\* an endorsement without metadata at level 3, nothing elsewhere
BatchOperations(b) ==
    LET tx  == Elem("Transaction", "transaction", "tz1a", "tz1b", <<5>>, <<1>>, TRUE, <<>>)
        en  == Elem("Endorsement", "endorsement", "tz1d", "", <<>>, <<>>, TRUE,
                    <<Upd(FALSE, "rewards", 2)>>)
        enN == Elem("Endorsement", "endorsement", "", "", <<>>, <<>>, FALSE, <<>>)
    IN  CASE b.level = 1 -> << <<Op("o1", <<tx>>)>> >>
          [] b.level = 2 -> << <<Op("o2", <<tx, en>>), Op("o3", <<>>)>>, <<Op("o4", <<tx>>)>> >>
          [] b.level = 3 -> << <<Op("o5", <<enN>>)>> >>
          [] OTHER -> << >>

\* part_002:299-312  the operations with a content element the filter keeps
getRawBlockOperations(operations, opsFilter) ==
    SelectSeq(Flatten(operations),
              LAMBDA o : \E k \in 1..Len(o.contents) :
                            o.contents[k].kind \in opsFilter.set \/ opsFilter.isNil)

ResolveFailed_Ignore(err) == FALSE

\* block.go:253-255, part_002:175-177  if err != nil { return err }
ResolveFailed(err) == err /= "nil"

\* block.go:258-279, part_002:181-205  the items the command has to write
BatchItems(c, snk, bs) ==
    IF c = "block"
    THEN [panic |-> FALSE, items |-> [i \in 1..Len(bs) |-> [arg |-> i, block |-> bs[i]]]]
    ELSE IF snk = "enc"
    THEN [panic |-> FALSE,
          items |-> Flatten([i \in 1..Len(bs) |->
                      LET raw == getRawBlockOperations(BatchOperations(bs[i]), NilFilter)
                      IN  [k \in 1..Len(raw) |-> [arg |-> i, block |-> bs[i],
                                                  hash |-> raw[k].hash]]])]
    ELSE LET rs == [i \in 1..Len(bs) |->
                      getBlockOperations(bs[i], BatchOperations(bs[i]), NilFilter)]
         IN  IF \E i \in 1..Len(bs) : rs[i].panic
             THEN [panic |-> TRUE, items |-> <<>>]
             ELSE [panic |-> FALSE,
                   items |-> Flatten([i \in 1..Len(bs) |->
                      [k \in 1..Len(rs[i].info) |-> [arg |-> i, block |-> rs[i].info[k].Block,
                                                     hash |-> rs[i].info[k].Hash]]])]

InitBatch ==
    /\ ResolverIdle
    /\ OpsIdle
    /\ RootIdle
    /\ cmd \in {"block", "operations"}
    /\ sink \in {"enc", "user", "queue"}
    /\ env = IdleEnv
    /\ ctxCancelled = FALSE
    /\ monPc = "closed" /\ monErr = "nil" /\ subs = 0 /\ lastSubErr = "nil"
    /\ ch = <<>> /\ chClosed = FALSE /\ heads = <<>>
    /\ lastLevel = 0 /\ firstBlockReceived = FALSE
    /\ pc = "done" /\ cur = NoBlock /\ sendLeft = 0 /\ result = "none"
    /\ received = <<>> /\ resolved = <<>> /\ resolveErr = "nil" /\ dispatched = <<>>
    /\ tplCh = <<>> /\ tplChClosed = FALSE /\ tplSem = FALSE /\ tplErr = "nil"
    /\ tplPc = "off" /\ rendered = <<>>
    /\ args \in ArgLists(MaxArgs) \ {<<>>}
    /\ blocks = <<>> /\ bCalls = <<>> /\ bErr = "nil" /\ bOut = <<>>
    /\ bPc = "resolve"

\* block.go:251-257, part_002:173-179  one iteration of the loop over args
BatchResolve ==
    /\ bPc = "resolve"
    /\ Len(blocks) < Len(args)
    /\ \E f \in 0..1 :
        LET i == Len(blocks) + 1
            r == getBlock(args[i], sink /= "enc",
                          [head |-> MaxHead, fail |-> f, failErr |-> "Transport"])
        IN  /\ bCalls' = bCalls \o [k \in 1..Len(r.calls) |-> [arg |-> i, id |-> r.calls[k].id]]
            /\ IF ResolveFailed(r.err)
               THEN bErr' = r.err /\ bPc' = "done" /\ UNCHANGED blocks
               ELSE /\ blocks' = Append(blocks, r.block)
                    /\ bPc' = IF i = Len(args) THEN "output" ELSE "resolve"
                    /\ UNCHANGED bErr
    /\ UNCHANGED <<resolverVars, watchVars, opsVars, rootVars, args, bOut>>

\* block.go:259-279, part_002:181-205  encode, or render with the user
\* template item by item, or with the standard template; a failed write ends
\* the output after n items
BatchOutput ==
    /\ bPc = "output"
    /\ LET w == BatchItems(cmd, sink, blocks) IN
        IF w.panic
        THEN bPc' = "panic" /\ UNCHANGED <<bOut, bErr>>
        ELSE /\ \E n \in 0..Len(w.items) :
                  /\ sink = "enc" => n \in {0, Len(w.items)}
                  /\ bOut' = SubSeq(w.items, 1, n)
                  /\ bErr' = IF n = Len(w.items) THEN "nil" ELSE "SinkErr"
             /\ bPc' = "done"
    /\ UNCHANGED <<resolverVars, watchVars, opsVars, rootVars, args, blocks, bCalls>>

NextBatch == BatchResolve \/ BatchOutput

SpecBatch == InitBatch /\ [][NextBatch]_vars

----------------------------------------------------------------------------
(* Claims about getBlock (specification SpecResolve) *)

\* the node calls of lines 347, 353 and 359 (all but the successor lookup)
PrimaryCalls(x) == SelectSeq(x.calls, LAMBDA c : c.at /= 371)

SymbolicAnchors == { a \in Anchors : Len(a) > 0 /\ a[1] \notin DigitSet }
LevelAnchors    == { a \in Anchors : \A j \in 1..Len(a) : a[j] \in DigitSet }
LevelOfAnchor(a) == IF Len(a) = 0 THEN 0 ELSE DigitsValue(a)

\* signed decimal texts and their values
SignedTexts ==
    { [text |-> FormatInt(n), val |-> n] : n \in -5..5 } \cup
    { [text |-> <<"+">> \o FormatInt(n), val |-> n] : n \in 0..5 } \cup
    { [text |-> <<"-", "0">>, val |-> 0] }

\* getBlock behaved as a resolution of symbolic anchor a with offset off
ResolvedSymbolic(a, off) ==
    LET ra == ServiceGetBlock(node, a, 1)
    IN  IF ra.err /= "nil"
        THEN xb.err = ra.err /\ PrimaryCalls(xb) = <<Call(a, 353)>>
        ELSE IF off = 0
        THEN xb.err = "nil" /\ xb.block = ra.block /\ PrimaryCalls(xb) = <<Call(a, 353)>>
        ELSE LET id == FormatInt(ra.block.level + off)
                 rb == ServiceGetBlock(node, id, 2)
             IN  /\ xb.err = rb.err
                 /\ xb.block = rb.block
                 /\ PrimaryCalls(xb) = <<Call(a, 353), Call(id, 359)>>

\* getBlock behaved as a resolution of level anchor a with offset off
ResolvedLevel(a, off) ==
    LET id == FormatInt(LevelOfAnchor(a) + off)
        r  == ServiceGetBlock(node, id, 1)
    IN  /\ xb.err = r.err
        /\ xb.block = r.block
        /\ PrimaryCalls(xb) = <<Call(id, 347)>>

\* C8: a symbolic anchor followed by k >= 1 tildes and nothing else resolves
\* to the block the node gives for level L - k, L being the level of the
\* block the node gives for the anchor.
C8_TildeCount ==
    gbPc = "returned" =>
        \A a \in SymbolicAnchors : \A k \in 1..Len(query) :
            query = a \o Tildes(k) => ResolvedSymbolic(a, 0 - k)

C8_Witness ==
    /\ gbPc = "returned"
    /\ query = HeadText \o Tildes(3)
    /\ xb.err = "nil"
    /\ xb.block.level = node.head - 3

\* C9: in <anchor><k tildes><signed decimal n> with k >= 1 the offset is -n
\* whatever k is; with no tilde and a signed n the offset is n.
C9_ExplicitOffset ==
    gbPc = "returned" =>
        \A a \in SymbolicAnchors : \A k \in 0..Len(query) : \A t \in SignedTexts :
            (/\ query = a \o Tildes(k) \o t.text
             /\ (k = 0 => t.text[1] \in {"+", "-"}))
            => ResolvedSymbolic(a, IF k >= 1 THEN 0 - t.val ELSE t.val)

C9_Witness ==
    /\ gbPc = "returned"
    /\ query = HeadText \o Tildes(2) \o <<"2">>
    /\ xb.err = "nil"
    /\ xb.block.level = node.head - 2

\* C10: with an empty or numeric anchor getBlock makes exactly one primary
\* lookup, of the decimal text of level + offset (empty anchor: level 0, so
\* `~3' asks for -3), and no lookup of the anchor as a block id.
C10_LevelLookup ==
    gbPc = "returned" =>
        \A a \in LevelAnchors : \A k \in 0..Len(query) :
            /\ query = a \o Tildes(k) => ResolvedLevel(a, 0 - k)
            /\ \A t \in SignedTexts :
                 (/\ query = a \o Tildes(k) \o t.text
                  /\ (k = 0 => t.text[1] \in {"+", "-"}))
                 => ResolvedLevel(a, IF k >= 1 THEN 0 - t.val ELSE t.val)

C10_Witness ==
    /\ gbPc = "returned"
    /\ query = Tildes(3)
    /\ PrimaryCalls(xb) = <<Call(<<"-", "3">>, 347)>>
    /\ xb.err = "NotFound"

\* the response of the node to call number n of the resolver run
Response(n) == ServiceGetBlock(node, xb.calls[n].id, n)

SuccessorCalls(x) == SelectSeq(x.calls, LAMBDA c : c.at = 371)

\* C11: with an anchor that begins with a letter getBlock first looks up the
\* anchor itself; with offset 0 that block is returned and no second primary
\* lookup is made; otherwise exactly one more lookup follows, at (level of
\* the anchor block + offset), and its block is returned.
C11_Traverse ==
    gbPc = "returned" =>
        \A a \in SymbolicAnchors : \A k \in 0..Len(query) :
          \A t \in SignedTexts \cup {[text |-> <<>>, val |-> 0 - k]} :
            (/\ query = a \o Tildes(k) \o t.text
             /\ (k = 0 /\ t.text /= <<>>) => t.text[1] \in {"+", "-"})
            => LET off == IF t.text = <<>> THEN 0 - k
                          ELSE IF k >= 1 THEN 0 - t.val ELSE t.val
                   pcs == PrimaryCalls(xb)
               IN  /\ Len(pcs) >= 1
                   /\ pcs[1] = Call(a, 353)
                   /\ (Response(1).err = "nil" /\ off = 0)
                        => /\ Len(pcs) = 1
                           /\ xb.err = "nil"
                           /\ xb.block = Response(1).block
                   /\ (Response(1).err = "nil" /\ off /= 0)
                        => /\ Len(pcs) = 2
                           /\ pcs[2] = Call(FormatInt(Response(1).block.level + off), 359)
                           /\ xb.err = Response(2).err
                           /\ xb.block = Response(2).block

C11_Witness ==
    /\ gbPc = "returned"
    /\ query = HeadText \o <<"-", "2">>
    /\ ~getSuccessor
    /\ xb.calls = <<Call(HeadText, 353), Call(FormatInt(node.head - 2), 359)>>
    /\ xb.err = "nil"
    /\ xb.block.level = node.head - 2

\* C12: with getSuccessor = true one extra lookup at (level of the resolved
\* block + 1) follows a successful primary resolution; its failure does not
\* fail getBlock and leaves Successor empty; with getSuccessor = false there
\* is no such lookup and Successor is empty.
C12_Successor ==
    gbPc = "returned" =>
        LET n == Len(xb.calls)
        IN  /\ ~getSuccessor => SuccessorCalls(xb) = <<>> /\ xb.successor = NoBlock
            /\ xb.err /= "nil" => SuccessorCalls(xb) = <<>> /\ xb.successor = NoBlock
            /\ (PrimaryCalls(xb) /= <<>> /\
                \A i \in 1..n : xb.calls[i].at /= 371 => Response(i).err = "nil")
                 => xb.err = "nil"
            /\ (getSuccessor /\ xb.err = "nil")
                 => /\ Len(SuccessorCalls(xb)) = 1
                    /\ xb.calls[n] = Call(FormatInt(xb.block.level + 1), 371)
                    /\ xb.successor = Response(n).block
                    /\ Response(n).err /= "nil" => xb.successor = NoBlock
                    /\ xb.successor /= NoBlock
                         => xb.successor.level = xb.block.level + 1

\* the successor lookup fails, getBlock succeeds with an empty Successor
C12_Witness ==
    /\ gbPc = "returned"
    /\ getSuccessor
    /\ query = HeadText \o Tildes(1)
    /\ Len(xb.calls) = 3
    /\ Response(3).err = "Transport"
    /\ xb.err = "nil"
    /\ xb.successor = NoBlock

\* the text after the anchor and the tildes, and the level text, as the
\* resolver has to parse them
OffsetText == 
    LET i == AnchorEnd(query)
        k == IF i < Len(query) /\ query[i + 1] = "~" THEN TildeRun(query, i) ELSE 0
    IN  SubSeq(query, i + k + 1, Len(query))

AnchorText == SubSeq(query, 1, AnchorEnd(query))

OffsetParseFails == OffsetText /= <<>> /\ ParseInt(OffsetText, Int32Bits).err /= "nil"

LevelParseFails ==
    /\ AnchorText /= <<>>
    /\ AnchorText[1] \in DigitSet
    /\ ParseInt(AnchorText, Int32Bits).err /= "nil"

\* C13: getBlock returns an error and makes no further node call as soon as
\* the offset text or the level text fails to parse or a primary lookup
\* fails; a parse failure is found before any node call.
C13_ErrorsStop ==
    gbPc = "returned" =>
        /\ (OffsetParseFails \/ LevelParseFails)
             => /\ xb.err \in {"ErrSyntax", "ErrRange"}
                /\ xb.calls = <<>>
        /\ \A i \in DOMAIN xb.calls :
             (xb.calls[i].at /= 371 /\ Response(i).err /= "nil")
               => /\ i = Len(xb.calls)
                  /\ xb.err = Response(i).err
        /\ \A i \in DOMAIN xb.calls : \A j \in DOMAIN xb.calls :
             i < j => xb.calls[i] /= xb.calls[j]
        /\ xb.err /= "nil" => xb.block = NoBlock /\ xb.successor = NoBlock

\* the second primary lookup fails: no third call although a successor was
\* asked for
C13_Witness ==
    /\ gbPc = "returned"
    /\ getSuccessor
    /\ query = HeadText \o Tildes(2)
    /\ Len(xb.calls) = 2
    /\ xb.err = "Transport"

\* a level text that does not parse: no call at all
C13_WitnessParse ==
    /\ gbPc = "returned"
    /\ query = <<"2", "a">>
    /\ xb.err = "ErrSyntax"
    /\ xb.calls = <<>>

----------------------------------------------------------------------------
(* Claims about the watch runs (specification SpecWatch) *)

StrictlyIncreasing(seq) ==
    \A i \in DOMAIN seq : \A j \in DOMAIN seq : i < j => seq[i] < seq[j]

Accepted == SelectSeq(received, LAMBDA e : e.accepted)

\* C1: in every watch run (block and operations) the levels of the blocks
\* handed to the sink are strictly increasing, and the blocks are handed over
\* in the order in which their notifications were received.
C1_DispatchOrdered ==
    /\ StrictlyIncreasing(dispatched)
    /\ \A n \in DOMAIN dispatched : dispatched[n] = Accepted[n].bi.level

\* the notification received as number n has to be accepted: none was
\* accepted before it, or its level is above that of the last accepted one
LastAcceptedBefore(n) ==
    CHOOSE i \in 1..(n - 1) :
        /\ received[i].accepted
        /\ \A j \in (i + 1)..(n - 1) : ~received[j].accepted

MustAccept(n) ==
    \/ \A i \in 1..(n - 1) : ~received[i].accepted
    \/ received[n].bi.level > received[LastAcceptedBefore(n)].bi.level

\* C2: in the operations watch loop the first notification is accepted
\* whatever its level, a later one iff its level is above the level of the
\* last accepted one; a dropped notification is not resolved; the filter
\* state survives re-subscriptions.
C2_Filter ==
    cmd = "operations" =>
        /\ \A n \in DOMAIN received : received[n].accepted = MustAccept(n)
        /\ resolved = [n \in DOMAIN Accepted |-> Accepted[n].bi.hash]
        /\ firstBlockReceived = (Accepted /= <<>>)
        /\ Accepted /= <<>> => lastLevel = Accepted[Len(Accepted)].bi.level

\* a head delivered again by the second subscription is dropped, and so is
\* another head at a level already accepted
C2_Witness ==
    /\ cmd = "operations"
    /\ Len(received) = 3
    /\ heads[1].sub = 1 /\ heads[2].sub = 2 /\ heads[3].sub = 2
    /\ received[1].bi = received[2].bi
    /\ received[3].bi.level = received[1].bi.level
    /\ received[3].bi.hash /= received[1].bi.hash
    /\ received[1].accepted /\ ~received[2].accepted /\ ~received[3].accepted

\* C3: monitorHeads subscribes again whenever a subscription ends without an
\* error and returns only with the non-nil error of a subscription call; all
\* subscriptions deliver into ch, and ch is closed only after the return.
C3_MonitorLoop ==
    /\ [](monPc \in {"returned", "closed"} => lastSubErr /= "nil" /\ monErr = lastSubErr)
    /\ [](chClosed => monPc = "closed")
    /\ [][/\ (monPc = "stream" /\ monPc' /= "stream" /\ lastSubErr' = "nil")
               => monPc' = "loop"
          /\ (monPc = "loop" /\ monPc' /= "loop")
               => monPc' = "stream" /\ subs' = subs + 1
          /\ heads' /= heads
               => /\ ~chClosed
                  /\ heads'[Len(heads')].sub = subs
                  /\ ch' = Append(ch, heads'[Len(heads')].bi)]_vars

C3_Witness ==
    /\ subs = 2
    /\ Len(heads) >= 2 /\ heads[1].sub = 1 /\ heads[Len(heads)].sub = 2
    /\ monPc = "closed" /\ chClosed
    /\ monErr = "Transport"

C5_ResolveErrorFatal ==
    /\ [](resolveErr \notin {"nil", "Canceled"} => pc = "done" /\ result = resolveErr)
    /\ [][resolveErr \notin {"nil", "Canceled"}
            => /\ resolved' = resolved
               /\ dispatched' = dispatched
               /\ tplCh' = tplCh \/ tplCh' = Tail(tplCh)]_vars

C5_Witness ==
    /\ resolveErr = "Transport"
    /\ result = "Transport"
    /\ Len(resolved) = 2
    /\ Len(dispatched) = 1
    /\ ch /= <<>>

\* C6: whenever the subscription ends with an error that is not the
\* cancellation, the watch command returns a non-nil error.
C6_MonitorErrorReported ==
    (pc = "done" /\ monErr = "Transport") => result /= "nil"

\* C7: with the queue sink, a return for a reason other than the
\* cancellation happens only after tplCh is closed, the template goroutine has
\* signalled completion and every enqueued record has been consumed.
C7_QueueDrainedOnReturn ==
    (pc = "done" /\ sink = "queue" /\ resolveErr /= "Canceled" /\ monErr /= "Canceled")
        => tplChClosed /\ tplSem /\ tplCh = <<>>

----------------------------------------------------------------------------
(* Claims about the operations command (specification SpecOps) *)

UnknownKindGiven == \E i \in 1..Len(opKinds) : opKinds[i] \notin DOMAIN knownKinds

\* C14: if any --kind value is not a key of knownKinds, the run ends with the
\* unknown-kind error, and it has made no node lookup, started no heads
\* subscription, classified nothing and written nothing, in both modes.
C14_UnknownKindFailsFast ==
    (UnknownKindGiven /\ oPc /= "start") =>
        /\ oPc = "done"
        /\ oErr = "UnknownKind"
        /\ oCalls = 0 /\ oSubs = 0 /\ oXb = NoBlock
        /\ oRecords = <<>> /\ oOut = <<>>

C14_Witness ==
    oWatch /\ opKinds = <<"tx", "xyz">> /\ oPc = "done" /\ oErr = "UnknownKind"

C14_WitnessNoWatch ==
    ~oWatch /\ opKinds = <<"xyz">> /\ oPc = "done" /\ oErr = "UnknownKind"

\* the run has gone through getBlockOperations
Classified == oPc \in {"output", "panic", "done"} /\ oXb /= NoBlock

KeptContents ==
    SelectSeq(ContentsInOrder(oBlock), LAMBDA x : ~Skipped(kinds, x.el.kind))

UnfilteredRecords ==
    LET all == ContentsInOrder(oBlock) IN
    [i \in 1..Len(all) |-> opInfoOf(all[i].hash, all[i].el, oXb)]

ExpectedRecords ==
    IF kinds.isNil \/ kinds.set = {}
    THEN UnfilteredRecords
    ELSE SelectSeq(UnfilteredRecords, LAMBDA r : r.Kind \in kinds.set)

\* C15: getBlockOperations returns, in block order, exactly the records of
\* the content elements whose kind is in the allow-set, and the records of
\* all content elements when the allow-set is absent.
C15_FilterSubsequence ==
    Classified => (oPc /= "panic" /\ oRecords = ExpectedRecords)

\* C15, the part the code keeps: a call that returns, returns those records.
C15_FilterWhenReturned ==
    (Classified /\ oPc /= "panic") => oRecords = ExpectedRecords

C15_WitnessExample ==
    /\ kinds = [isNil |-> FALSE, set |-> {"transaction", "delegation"}]
    /\ oPc = "output"
    /\ Len(oRecords) = 1 /\ oRecords[1].Kind = "transaction"
    /\ \E i \in 1..Len(ContentsInOrder(oBlock)) :
            ContentsInOrder(oBlock)[i].el.kind = "endorsement"

\* C16: the value `all' is accepted by --kind and the run then selects every
\* kind, as a run without --kind does.
C16_AllAccepted ==
    (opKinds = <<"all">> /\ oPc /= "start") =>
        (oErr /= "UnknownKind" /\ kinds = NilFilter)

\* C17: the Kind of every record returned by getBlockOperations is one of the
\* eleven canonical taxonomy names.
C17_KindInTaxonomy ==
    \A i \in 1..Len(oRecords) : oRecords[i].Kind \in CanonicalKinds

TaxonomyOnly ==
    \A i \in 1..Len(ContentsInOrder(oBlock)) :
        ContentsInOrder(oBlock)[i].el.kind \in CanonicalKinds

\* C18: on a block whose content elements are all of taxonomy kinds,
\* getBlockOperations does not fail, whether or not an endorsement or an
\* activation carries metadata, and returns a record for every kept element.
C18_NeverFails ==
    (Classified /\ TaxonomyOnly) =>
        (oPc /= "panic" /\ Len(oRecords) = Len(KeptContents))

HasContractUpdate(el) == \E i \in 1..Len(el.updates) : el.updates[i].contract

NoAmount(el) ==
    \/ el.kind \in {"endorsement", "ballot", "proposals", "reveal",
                    "seed_nonce_revelation", "double_endorsement_evidence",
                    "double_baking_evidence"}
    \/ el.kind \in {"transaction", "origination", "delegation"} /\ el.amount = <<>>
    \/ el.kind = "activate_account" /\ ~HasContractUpdate(el)

NoFee(el) == ~OperationWithFee(el) \/ el.fee = <<>>

\* C19: in every returned record Amount is absent when the element carries no
\* amount and Fee is absent when the element has no fee; neither is replaced
\* by a zero.
C19_AbsentStaysAbsent ==
    (Classified /\ oPc /= "panic") =>
        \A i \in 1..Len(oRecords) :
            /\ NoAmount(KeptContents[i].el) => oRecords[i].Amount = <<>>
            /\ NoFee(KeptContents[i].el) => oRecords[i].Fee = <<>>

RECURSIVE PositiveContractChanges(_)
PositiveContractChanges(updates) ==
    IF updates = <<>> THEN 0
    ELSE (IF Head(updates).contract /\ Head(updates).change > 0
          THEN Head(updates).change ELSE 0)
         + PositiveContractChanges(Tail(updates))

\* C20: the record of an activate_account element has the activated
\* public-key-hash as Source, an empty Destination, and as Amount the scaled
\* sum of the positive contract balance changes of its metadata.
C20_ActivationAmount ==
    (Classified /\ oPc /= "panic") =>
        \A i \in 1..Len(oRecords) :
            LET el == KeptContents[i].el IN
            (el.kind = "activate_account" /\ HasContractUpdate(el)) =>
                /\ oRecords[i].Source = el.who
                /\ oRecords[i].Destination = ""
                /\ oRecords[i].Amount = <<Scaled(PositiveContractChanges(el.updates))>>

\* getBlockInfo has run on the resolved block
InfoComputed == oInfo /= NoInfo

FeeBearingKinds == {"transaction", "reveal", "origination", "delegation"}

ClaimedFee(el) == IF el.kind \in FeeBearingKinds /\ el.fee /= <<>> THEN el.fee[1] ELSE 0

ClaimedAmount(el) ==
    IF el.kind = "transaction" /\ el.amount /= <<>> THEN el.amount[1] ELSE 0

\* all content elements of the block, group by group
GroupContents == Flatten([i \in 1..Len(Flatten(oBlock)) |-> Flatten(oBlock)[i].contents])

\* C21: OperationsNum is the number of content elements of all operation
\* groups, Fees the sum of the fees of the fee-bearing elements, Volume the
\* sum of the transaction amounts, each summed in base units and scaled once
\* by 10^-6; the kind filter plays no part.
C21_Aggregate ==
    InfoComputed =>
        /\ oInfo.OperationsNum =
                SumSeq([j \in 1..Len(Flatten(oBlock)) |-> Len(Flatten(oBlock)[j].contents)])
        /\ oInfo.Fees =
                [num |-> SumSeq([i \in 1..Len(GroupContents) |-> ClaimedFee(GroupContents[i])]),
                 den |-> 1000000]
        /\ oInfo.Volume =
                [num |-> SumSeq([i \in 1..Len(GroupContents) |-> ClaimedAmount(GroupContents[i])]),
                 den |-> 1000000]

\* one transaction of 1_000_000 with fee 1_000: volume 1.0, fees 0.001, under
\* a filter that selects no transaction
C21_Witness ==
    /\ InfoComputed
    /\ kinds = [isNil |-> FALSE, set |-> {"endorsement"}]
    /\ Len(GroupContents) = 1
    /\ GroupContents[1].amount = <<1000000>> /\ GroupContents[1].fee = <<1000>>
    /\ oInfo.OperationsNum = 1
    /\ oInfo.Volume.num = oInfo.Volume.den
    /\ oInfo.Fees.num * 1000 = oInfo.Fees.den

\* the "rewards" changes of the endorsement elements of the block (no code of
\* the current commands reads the balance updates of the block's own metadata)
RewardsOf(el) ==
    IF el.kind = "endorsement" /\ el.meta
    THEN SumSeq([i \in 1..Len(el.updates) |->
                    IF ~el.updates[i].contract /\ el.updates[i].category = "rewards"
                    THEN el.updates[i].change ELSE 0])
    ELSE 0

ClaimedRewards == SumSeq([i \in 1..Len(GroupContents) |-> RewardsOf(GroupContents[i])])

\* C22: the aggregate of a resolved block has a rewards value, the scaled sum
\* of the "rewards" balance-update changes of the block and of its
\* endorsement elements.
C22_RewardsInAggregate ==
    InfoComputed =>
        /\ "Rewards" \in DOMAIN oInfo
        /\ oInfo.Rewards = Scaled(ClaimedRewards)

\* C23: volume, fees and rewards of every aggregate are non-negative.
C23_NonNegative ==
    InfoComputed =>
        /\ oInfo.Volume.num >= 0
        /\ oInfo.Fees.num >= 0
        /\ "Rewards" \in DOMAIN oInfo
        /\ oInfo.Rewards.num >= 0

\* C23, the part the code keeps: volume and fees are non-negative.
C23_VolumeFeesNonNegative ==
    InfoComputed => (oInfo.Volume.num >= 0 /\ oInfo.Fees.num >= 0)

RecordFee(r) == IF r.Fee = <<>> THEN 0 ELSE r.Fee[1].num

RecordVolume(r) ==
    IF r.Kind = "transaction" /\ r.Amount /= <<>> THEN r.Amount[1].num ELSE 0

RecordsMatchAggregate ==
    /\ Len(oRecords) = oInfo.OperationsNum
    /\ SumSeq([i \in 1..Len(oRecords) |-> RecordFee(oRecords[i])]) = oInfo.Fees.num
    /\ SumSeq([i \in 1..Len(oRecords) |-> RecordVolume(oRecords[i])]) = oInfo.Volume.num
    /\ \A i \in 1..Len(oRecords) :
        /\ oRecords[i].Block = oInfo.block
        /\ \E j \in 1..Len(Flatten(oBlock)) :
            /\ Flatten(oBlock)[j].hash = oRecords[i].Hash
            /\ \E k \in 1..Len(Flatten(oBlock)[j].contents) :
                    Flatten(oBlock)[j].contents[k].kind = oRecords[i].Kind

\* C28: with an absent allow-set getBlockOperations returns as many records as
\* OperationsNum, their fees add up to Fees and the transaction records'
\* amounts to Volume (base units), and every record refers to the block and
\* carries the hash of the operation group of its element.
C28_RecordsMatchAggregate ==
    (Classified /\ kinds.isNil) => (oPc /= "panic" /\ RecordsMatchAggregate)

\* C28, the part the code keeps: a call that returns agrees with the aggregate.
C28_WhenReturned ==
    (Classified /\ kinds.isNil /\ oPc /= "panic") => RecordsMatchAggregate

FirstUnknown == CHOOSE i \in 1..Len(opKinds) :
    /\ opKinds[i] \notin DOMAIN knownKinds
    /\ \A j \in 1..(i - 1) : opKinds[j] \in DOMAIN knownKinds

\* C29: the unknown-kind error names the value the user passed.
C29_ErrorNamesValue ==
    oErr = "UnknownKind" => oErrArg = opKinds[FirstUnknown]

----------------------------------------------------------------------------
(* Claims about the root command (specification SpecRoot) *)

\* C30: when creating the RPC client fails, the pre-run hook returns a
\* non-nil error, whether or not the log level is valid.
C30_ClientErrorReturned ==
    (prePc = "done" /\ clientFails) => preErr /= "nil"

----------------------------------------------------------------------------
(* Claims about the non-watch runs (specification SpecBatch) *)

\* the run ended on a failed resolution
ResolutionFailed == bPc = "done" /\ bErr \notin {"nil", "SinkErr"}

\* what the reference resolves to when no transport failure interferes
Healthy(q) ==
    getBlock(q, sink /= "enc", [head |-> MaxHead, fail |-> 0, failErr |-> "Transport"])

\* C24: a non-watch run resolves the references in argument order and writes
\* only after all are resolved; a failed resolution ends the run with its
\* error, with no lookup for a later reference and no output; a run that
\* succeeds has written the blocks, or their operations, in argument order.
C24_AllOrNothing ==
    /\ \A i, j \in 1..Len(bCalls) : i < j => bCalls[i].arg <= bCalls[j].arg
    /\ \A i \in 1..Len(blocks) : blocks[i] /= NoBlock /\ Healthy(args[i]).err = "nil"
    /\ bOut /= <<>> => Len(blocks) = Len(args)
    /\ ResolutionFailed =>
            /\ Len(blocks) < Len(args)
            /\ bOut = <<>>
            /\ \A k \in 1..Len(bCalls) : bCalls[k].arg <= Len(blocks) + 1
            /\ bErr \in {"Transport", Healthy(args[Len(blocks) + 1]).err}
    /\ (bPc = "done" /\ bErr = "nil") =>
            /\ Len(blocks) = Len(args)
            /\ \A i \in 1..Len(args) : blocks[i] = Healthy(args[i]).block
            /\ \A i, j \in 1..Len(bOut) : i < j => bOut[i].arg <= bOut[j].arg
            /\ \A i \in 1..Len(bOut) : bOut[i].block = blocks[bOut[i].arg]
            /\ cmd = "block" => Len(bOut) = Len(args)
            /\ cmd = "operations" =>
                    \A a \in 1..Len(args) :
                        Cardinality({ i \in 1..Len(bOut) : bOut[i].arg = a })
                          = IF sink = "enc"
                            THEN Len(getRawBlockOperations(BatchOperations(blocks[a]), NilFilter))
                            ELSE Len(ContentsInOrder(BatchOperations(blocks[a])))

\* the second of two references fails after the first was resolved
C24_Witness ==
    /\ Len(args) = 2 /\ Len(blocks) = 1 /\ ResolutionFailed
    /\ bErr = "NotFound" /\ bOut = <<>>
    /\ \E k \in 1..Len(bCalls) : bCalls[k].arg = 2

\* two references resolved and their operations written in argument order
C24_WitnessWritten ==
    /\ cmd = "operations" /\ sink = "queue" /\ bPc = "done" /\ bErr = "nil"
    /\ Len(args) = 2 /\ Len(bOut) = 4
    /\ bOut[1].arg = 1 /\ bOut[4].arg = 2 /\ bOut[1].block /= bOut[4].block

----------------------------------------------------------------------------
(* Claims about the queues of a watch run (specification SpecQueue) *)

\* a step leaves the queue alone, appends one item at its end, or removes its
\* first item
QueueStep(q, qNext) ==
    \/ qNext = q
    \/ Len(qNext) = Len(q) + 1 /\ SubSeq(qNext, 1, Len(q)) = q
    \/ q /= <<>> /\ qNext = Tail(q)

\* the notifications put into ch are those the loop took, then those in ch
NothingLostInCh ==
    [i \in 1..Len(heads) |-> heads[i].bi] = [i \in 1..Len(received) |-> received[i].bi] \o ch

\* the loop is at a send to tplCh: `tplCh <- &bi' of a `block' run, or
\* `tplCh <- op' for a record of an `operations' run
SendPending ==
    sink = "queue" /\ (pc = "send" \/ (cmd = "block" /\ pc = "dispatch"))

\* C25: ch never holds more than 10 notifications and tplCh never more than
\* 10 block records (100 operation records); a full queue takes no item
\* until its consumer has removed one, nothing is dropped or overwritten,
\* and items leave each queue in the order they entered.
C25_BoundedFifo ==
    /\ [](Len(ch) <= 10 /\ Len(tplCh) <= (IF cmd = "operations" THEN 100 ELSE 10))
    /\ [] NothingLostInCh
    /\ [][/\ QueueStep(ch, ch') /\ QueueStep(tplCh, tplCh')
          /\ Len(ch) = 10 => (heads' = heads /\ Len(ch') <= 10)
          /\ Len(tplCh) = (IF cmd = "operations" THEN 100 ELSE 10) =>
                (SendPending => pc' = pc \/ Len(tplCh') < Len(tplCh))
          /\ Len(rendered') > Len(rendered) =>
                (rendered' = Append(rendered, Head(tplCh)) /\ tplCh' = Tail(tplCh))]_vars

\* both queues of a `block' run are full, the subscription has more to
\* announce and the loop holds a block it cannot send
C25_Witness ==
    /\ cmd = "block" /\ sink = "queue"
    /\ Len(ch) = 10 /\ Len(tplCh) = 10
    /\ monPc = "stream" /\ Len(heads) < env.heads
    /\ pc = "dispatch"

\* tplCh of an `operations' run holds 100 records and the loop has one more
C25_WitnessOperations ==
    /\ cmd = "operations" /\ sink = "queue"
    /\ Len(tplCh) = 100 /\ pc = "send" /\ sendLeft > 0

\* C26: when the template goroutine has stopped on an error, the loop is
\* never left blocked on a full tplCh that nobody reads, so the command can
\* still return and report tplErr.
C26_LoopNeverStuck ==
    ~(/\ tplPc = "done" /\ tplErr /= "nil"
      /\ SendPending
      /\ Len(tplCh) >= TplCap(cmd))

----------------------------------------------------------------------------
(* Claims about fairly scheduled watch runs (specification SpecFair) *)

\* the notifications among the first n taken by the loop that it accepted
AcceptedUpTo(n) == Cardinality({ i \in 1..n : received[i].accepted })

\* the n-th notification was taken from ch and, if accepted, its block was
\* resolved and handed to the sink with all its records
Served(n) ==
    /\ Len(received) >= n
    /\ Len(resolved) >= AcceptedUpTo(n)
    /\ \/ Len(dispatched) > AcceptedUpTo(n)
       \/ Len(dispatched) = AcceptedUpTo(n) /\ pc \notin {"dispatch", "send"}

\* every notification delivered so far has been served; Served(n) implies
\* Served(m) for every m <= n
AllServed == \A n \in 1..Len(heads) : Served(n)

\* C27: without errors and cancellation, every notification the subscription
\* delivers is eventually taken by the loop and, when the filter accepts it,
\* resolved and delivered to the sink, across connection closes: whenever a
\* delivered notification is not yet served, a state follows in which every
\* delivered notification has been served.
C27_EveryHeadServed == (~AllServed) ~> AllServed

\* the same, one notification at a time; it follows from C27_EveryHeadServed
\* because heads only grows
C27_EachHeadServed ==
    \A n \in 1..FairHeads : (Len(heads) >= n) ~> Served(n)

\* a head delivered by the second subscription was accepted and has been
\* served by the queue sink of `operations'
C27_Witness ==
    /\ cmd = "operations" /\ sink = "queue"
    /\ Len(heads) = FairHeads /\ heads[FairHeads].sub = 2
    /\ Served(FairHeads) /\ received[FairHeads].accepted
    /\ rendered /= <<>>
    /\ result = "none"

====
